---- MODULE Spec2Model ----
(***************************************************************************)
(* The counter application of idiopath/run.py: one MyApp object holding an *)
(* integer count, a render callback (run) and two event handlers           *)
(* (handle_click, reset) that the host framework "foo" calls back, one at  *)
(* a time, from its event loop.                                            *)
(***************************************************************************)
EXTENDS Integers, Sequences, FiniteSets, TLC

\* Longest sequence of callbacks the host delivers in the model.
MaxEvents == 11

\* The opaque values the host threads into the callbacks (run.py:21 passes
\* the first one to foo.ui).
Data == {"this data is threaded down", "other data"}

VARIABLES
    my_app,     \* the MyApp object of run.py:19: a record of its attributes
    shown,      \* what the last run() call returned to the host
    exc,        \* the exception that escaped the last callback, "None" if none
    arg,        \* the data argument of the last callback, "None" before the first
    twin_app,   \* my_app of a second run fed the same callbacks with its own data
    twin_shown, \* what the last run() call of the second run returned
    twin_arg,   \* the data argument of the last callback of the second run
    trace       \* the callbacks the host has invoked so far, oldest first

vars == <<my_app, shown, exc, arg, twin_app, twin_shown, twin_arg, trace>>

\* ------------------------------------------------------------------------
\* Python and host-framework values

\* The value of `shown` before the host has called run() at all.
NoOutput == [kind |-> "nothing"]

DecimalDigit == <<"0", "1", "2", "3", "4", "5", "6", "7", "8", "9">>

\* The decimal digits of n >= 0, most significant first.
RECURSIVE Digits(_)
Digits(n) ==
    IF n < 10 THEN DecimalDigit[n + 1]
    ELSE Digits(n \div 10) \o DecimalDigit[(n % 10) + 1]

\* Python's format of an int inside an f-string replacement field, {n}.
format_int(n) == IF n < 0 THEN "-" \o Digits(-n) ELSE Digits(n)

\* foo.button(label, handler): a button description; the handler is a bound
\* method of the application object, named by the method.
button(label, handler) ==
    [kind |-> "button", label |-> label, handler |-> handler]

\* foo.column(*children): a vertical container of the children, in order.
column(children) == [kind |-> "column", children |-> children]

\* ------------------------------------------------------------------------
\* class MyApp.  Each method is an operator from the object and the data
\* argument to the object afterwards (self), the value returned (ret) and
\* the exception raised (exc, "None" when the method returns normally).

\* Slip: the counter starts at 1.
__init__StartsAtOne == [count |-> 1]

__init__ == [count |-> 0]

\* Slip: the two buttons are passed to foo.column in the other order.
run_Swapped(self, data) ==
    [self |-> self,
     ret  |-> column(<<button("reset", "reset"),
                       button("count: " \o format_int(self.count), "handle_click")>>),
     exc  |-> "None"]

\* Slip: the label is built from the count the object was created with, not
\* from the current one.
run_StaleLabel(self, data) ==
    [self |-> self,
     ret  |-> column(<<button("count: " \o format_int(0), "handle_click"),
                       button("reset", "reset")>>),
     exc  |-> "None"]

\* Slip: rendering counts the render, self.count += 1 before building the
\* description.
run_Counting(self, data) ==
    [self |-> [self EXCEPT !.count = self.count + 1],
     ret  |-> column(<<button("count: " \o format_int(self.count + 1), "handle_click"),
                       button("reset", "reset")>>),
     exc  |-> "None"]

run(self, data) ==
    [self |-> self,
     ret  |-> column(<<button("count: " \o format_int(self.count), "handle_click"),
                       button("reset", "reset")>>),
     exc  |-> "None"]

\* Slip: self.count += 2.
handle_click_ByTwo(self, data) ==
    [self |-> [self EXCEPT !.count = self.count + 2],
     ret  |-> "None",
     exc  |-> "None"]

\* Slip: self.count -= 1.
handle_click_Decrement(self, data) ==
    [self |-> [self EXCEPT !.count = self.count - 1],
     ret  |-> "None",
     exc  |-> "None"]

\* Slip: self.count += len(data), the step depends on the data argument.
handle_click_UsesData(self, data) ==
    [self |-> [self EXCEPT !.count =
                  self.count + (IF data = "other data" THEN 10 ELSE 26)],
     ret  |-> "None",
     exc  |-> "None"]

\* Slip: a counter with a ceiling, raising once the ceiling is reached.
handle_click_Raises(self, data) ==
    IF self.count >= 3
    THEN [self |-> self, ret |-> "None", exc |-> "OverflowError"]
    ELSE [self |-> [self EXCEPT !.count = self.count + 1],
          ret  |-> "None",
          exc  |-> "None"]

handle_click(self, data) ==
    [self |-> [self EXCEPT !.count = self.count + 1],
     ret  |-> "None",
     exc  |-> "None"]

\* Slip: self.count == 0, a comparison where the assignment was meant.
reset_NoAssign(self, data) ==
    [self |-> self, ret |-> "None", exc |-> "None"]

\* Slip: reset halves the counter instead of clearing it.
reset_Halves(self, data) ==
    [self |-> [self EXCEPT !.count = self.count \div 2],
     ret  |-> "None",
     exc  |-> "None"]

reset(self, data) ==
    [self |-> [self EXCEPT !.count = 0],
     ret  |-> "None",
     exc  |-> "None"]

\* ------------------------------------------------------------------------
\* The host's event loop (foo.ui): it calls one callback at a time.

Init ==
    /\ my_app = __init__
    /\ twin_app = __init__
    /\ shown = NoOutput
    /\ twin_shown = NoOutput
    /\ exc = "None"
    /\ arg = "None"
    /\ twin_arg = "None"
    /\ trace = <<>>

\* The host may deliver another callback: the model's bound is not reached
\* and no exception has ended the event loop.
CanDeliver == Len(trace) < MaxEvents /\ exc = "None"

\* The host renders: it calls my_app.run(d) and keeps the description.
Render ==
    \E d \in Data : \E d2 \in Data \ {d} :
        LET r == run(my_app, d)
            r2 == run(twin_app, d2)
        IN  /\ CanDeliver
            /\ my_app' = r.self
            /\ shown' = IF r.exc = "None" THEN r.ret ELSE shown
            /\ exc' = r.exc
            /\ arg' = d
            /\ twin_arg' = d2
            /\ twin_app' = r2.self
            /\ twin_shown' = IF r2.exc = "None" THEN r2.ret ELSE twin_shown
            /\ trace' = Append(trace, "run")

\* The first button is activated: the host calls my_app.handle_click(d).
Click ==
    \E d \in Data : \E d2 \in Data \ {d} :
        LET r == handle_click(my_app, d)
            r2 == handle_click(twin_app, d2)
        IN  /\ CanDeliver
            /\ my_app' = r.self
            /\ exc' = r.exc
            /\ arg' = d
            /\ twin_arg' = d2
            /\ twin_app' = r2.self
            /\ trace' = Append(trace, "handle_click")
            /\ UNCHANGED <<shown, twin_shown>>

\* The second button is activated: the host calls my_app.reset(d).
ResetClick ==
    \E d \in Data : \E d2 \in Data \ {d} :
        LET r == reset(my_app, d)
            r2 == reset(twin_app, d2)
        IN  /\ CanDeliver
            /\ my_app' = r.self
            /\ exc' = r.exc
            /\ arg' = d
            /\ twin_arg' = d2
            /\ twin_app' = r2.self
            /\ trace' = Append(trace, "reset")
            /\ UNCHANGED <<shown, twin_shown>>

Next == Render \/ Click \/ ResetClick

Spec == Init /\ [][Next]_vars

\* ------------------------------------------------------------------------
\* Reading the trace of callbacks

Last(s) == s[Len(s)]

EndsWith(s, tail) ==
    /\ Len(s) >= Len(tail)
    /\ SubSeq(s, Len(s) - Len(tail) + 1, Len(s)) = tail

\* How many handle_click calls the trace holds.
RECURSIVE NumClicks(_)
NumClicks(s) ==
    IF s = <<>> THEN 0
    ELSE NumClicks(SubSeq(s, 1, Len(s) - 1))
         + (IF Last(s) = "handle_click" THEN 1 ELSE 0)

\* How many handle_click calls follow the most recent reset call (or the
\* start, when the trace holds no reset).
RECURSIVE ClicksSinceReset(_)
ClicksSinceReset(s) ==
    IF s = <<>> \/ Last(s) = "reset" THEN 0
    ELSE ClicksSinceReset(SubSeq(s, 1, Len(s) - 1))
         + (IF Last(s) = "handle_click" THEN 1 ELSE 0)

Has(s, e) == \E i \in 1..Len(s) : s[i] = e

\* The labels the first button is expected to carry, written out.
CountLabels ==
    <<"count: 0", "count: 1", "count: 2", "count: 3", "count: 4", "count: 5",
      "count: 6", "count: 7", "count: 8", "count: 9", "count: 10", "count: 11",
      "count: 12", "count: 13", "count: 14", "count: 15">>

LabelOf(k) ==
    IF k \in 0..(Len(CountLabels) - 1) THEN CountLabels[k + 1] ELSE "no such label"

\* The label of the first button of a description run() returned.
FirstLabel(out) ==
    IF out.kind = "column" /\ Len(out.children) >= 1
    THEN out.children[1].label ELSE "no first button"

\* Steps that are a call of one callback.
RenderStep == trace' = Append(trace, "run")
ClickStep == trace' = Append(trace, "handle_click")
ResetStep == trace' = Append(trace, "reset")

\* ------------------------------------------------------------------------
\* Claims

\* C1: after any sequence of increments (of any length, zero included), a
\* reset call leaves count = 0.
C1_ResetYieldsZero ==
    (trace # <<>> /\ Last(trace) = "reset") => my_app.count = 0

C1_Witness ==
    /\ trace = <<"handle_click", "handle_click", "handle_click", "reset">>
    /\ my_app.count = 0

\* C2: from the initial state, N handle_click calls with no reset among
\* them leave count = N, and every single handle_click call adds exactly 1.
C2_IncrementCounts ==
    /\ [](~Has(trace, "reset") => my_app.count = NumClicks(trace))
    /\ [][ClickStep => my_app'.count = my_app.count + 1]_vars

C2_Witness ==
    /\ Len(trace) = MaxEvents
    /\ \A i \in 1..Len(trace) : trace[i] = "handle_click"
    /\ my_app.count = MaxEvents

\* C3: the count is 0 when the object has just been created, and a render
\* before any handle_click or reset call gives the first button the label
\* "count: 0".
C3_InitialState ==
    /\ trace = <<>> => my_app.count = 0
    /\ (trace # <<>> /\ \A i \in 1..Len(trace) : trace[i] = "run")
          => FirstLabel(shown) = "count: 0"

C3_Witness ==
    /\ trace = <<"run">>
    /\ FirstLabel(shown) = "count: 0"
    /\ my_app.count = 0

\* C4: a render leaves the object unchanged, and a render that directly
\* follows a render returns the same description.
C4_RenderPure ==
    [][RenderStep =>
          /\ my_app' = my_app
          /\ (trace # <<>> /\ Last(trace) = "run") => shown' = shown]_vars

C4_Witness ==
    /\ trace = <<"handle_click", "run", "run", "run">>
    /\ my_app.count = 1
    /\ FirstLabel(shown) = "count: 1"

\* C5: in every state run() returns a column of exactly two children: first
\* a button labelled "count: " and the current count, handled by
\* handle_click, then a button labelled "reset", handled by reset; and that
\* is what the host holds after a render.
C5_RenderShape ==
    /\ \A d \in Data :
          LET r == run(my_app, d) IN
          /\ r.exc = "None"
          /\ r.ret.kind = "column"
          /\ Len(r.ret.children) = 2
          /\ r.ret.children[1] =
                [kind |-> "button", label |-> LabelOf(my_app.count),
                 handler |-> "handle_click"]
          /\ r.ret.children[2] =
                [kind |-> "button", label |-> "reset", handler |-> "reset"]
    /\ (trace # <<>> /\ Last(trace) = "run") => shown = run(my_app, arg).ret

C5_Witness ==
    /\ trace # <<>> /\ Last(trace) = "run"
    /\ my_app.count = 10
    /\ shown.children[1].label = "count: 10"
    /\ shown.children[2].label = "reset"

\* C6: after any interleaving of callbacks, a render shows "count: k" for k
\* the number of handle_click calls since the most recent reset (or since
\* the start); a render that follows render, handle_click shows one more
\* than the render before, and one that follows a reset shows "count: 0".
C6_RenderFollowsHandlers ==
    /\ []((trace # <<>> /\ Last(trace) = "run")
            => FirstLabel(shown) = LabelOf(ClicksSinceReset(trace)))
    /\ [][(RenderStep /\ EndsWith(trace, <<"run", "handle_click">>))
            => \E k \in 0..MaxEvents :
                  /\ FirstLabel(shown) = LabelOf(k)
                  /\ FirstLabel(shown') = LabelOf(k + 1)]_vars
    /\ [][(RenderStep /\ EndsWith(trace, <<"reset">>))
            => FirstLabel(shown') = "count: 0"]_vars

C6_Witness ==
    /\ trace = <<"run", "handle_click", "run", "handle_click", "handle_click",
                 "reset", "run", "handle_click", "run">>
    /\ FirstLabel(shown) = "count: 1"

\* C7: the count is a non-negative integer in every reachable state.
C7_CountNonNegative == my_app.count \in Nat

C7_Witness ==
    /\ Has(trace, "run") /\ Has(trace, "reset")
    /\ EndsWith(trace, <<"handle_click", "handle_click">>)
    /\ my_app.count = 2

\* C8: two runs that get the same callbacks with different data arguments
\* on every call agree on the count and on the render output at every step.
C8_DataUnused ==
    /\ my_app = twin_app
    /\ shown = twin_shown

C8_Witness ==
    /\ arg # twin_arg
    /\ trace = <<"handle_click", "run", "reset", "handle_click", "handle_click", "run">>
    /\ my_app.count = 2 /\ twin_app.count = 2
    /\ FirstLabel(shown) = "count: 2" /\ FirstLabel(twin_shown) = "count: 2"

\* C9: every callback is total: no callback ends with an exception, and in
\* every state each of the three callbacks can be called.
C9_Total ==
    /\ exc = "None"
    /\ Len(trace) < MaxEvents =>
          /\ ENABLED Render
          /\ ENABLED Click
          /\ ENABLED ResetClick

C9_Witness ==
    /\ Has(trace, "run") /\ Has(trace, "reset")
    /\ NumClicks(trace) >= 5
    /\ my_app.count >= 5
    /\ exc = "None"

\* C10: a reset leaves the state the object was created with whatever calls
\* came before it, and a second reset in a row changes nothing.
C10_ResetIdempotent ==
    /\ [](\A d1 \in Data, d2 \in Data :
            reset(reset(my_app, d1).self, d2).self = reset(my_app, d1).self)
    /\ [][ResetStep =>
            /\ my_app' = [count |-> 0]
            /\ (trace # <<>> /\ Last(trace) = "reset") => my_app' = my_app]_vars

C10_Witness ==
    /\ trace = <<"handle_click", "handle_click", "handle_click", "reset", "reset">>
    /\ my_app.count = 0

====
